---- MODULE Spec2Model ----
(***************************************************************************)
(* A model of three pieces of firebase-tools:                              *)
(*   - src/bin/cli.ts: log file selection and the process exit handler;    *)
(*   - src/frameworks/next/utils.ts: the Next.js manifest predicates;      *)
(*   - src/mcp/tools/auth/disable_user.ts: the disable_user tool handler.  *)
(* Each piece has its own specification (SpecLog, SpecExit, SpecNext,      *)
(* SpecTool) over its own variables; the other variables stay as they are. *)
(***************************************************************************)
EXTENDS Integers, Sequences, FiniteSets, TLC

VARIABLES
    \* ---- cli.ts, findAvailableLogFile
    disk,          \* path -> what fs.openSync(path, "r+") does there
    logPc,         \* "start" | "selected" | "fatal"
    logFilename,   \* the path findAvailableLogFile returned ("" before/none)
    opened         \* the paths handed to fs.openSync, in call order

VARIABLES
    \* ---- cli.ts, one CLI process after another, and its exit handler
    runPc,         \* "boot" | "booted" | "running" | "exited"
    args,          \* process.argv.slice(2)
    envDEBUG,      \* process.env.DEBUG: <<>> (unset) or <<string>>
    isTTY,         \* process.stdout.isTTY
    cmd,           \* whether `cmd` holds the parsed command
    exitCodeProp,  \* process.exitCode: <<>> (undefined) or <<number>>
    logFileExists, \* whether the selected log file is on disk
    lastError,     \* configstore "lastError": <<>> (absent) or <<timestamp>>
    clock,         \* Date.now()
    exitArg,       \* the code the "exit" event passed to the handler
    handled,       \* what the exit handler of this run did (a record)
    prevExit,      \* the previous run's exit: "none" | "failure_tty" | "other"
    notifiedCodes  \* effective exit codes whose exit issued the update notification

VARIABLES
    \* ---- frameworks/next/utils.ts, one call at a time
    nextOp,        \* the function called ("none" between calls)
    nextArg,       \* its argument
    nextRes        \* what it returned

VARIABLES
    \* ---- mcp/tools/auth/disable_user.ts
    users,         \* the project's Auth users: uid -> disabled
    usersAtStart,  \* the users before any tool call
    apiLog,        \* the remote management API calls made, in order
    invocations    \* the tool calls made, each with its result, in order

logVars == <<disk, logPc, logFilename, opened>>

nextVars == <<nextOp, nextArg, nextRes>>

toolVars == <<users, usersAtStart, apiLog, invocations>>

exitVars == <<runPc, args, envDEBUG, isTTY, cmd, exitCodeProp, logFileExists,
              lastError, clock, exitArg, handled, prevExit, notifiedCodes>>

vars == <<logVars, exitVars, nextVars, toolVars>>

\* An absent value (undefined, an unset variable, a missing key) is <<>> and a
\* present value v is <<v>>.
Undefined == <<>>

Some(v) == <<v>>

\* What the exit handler has done before it has run.
NotHandled ==
    [ran |-> FALSE, code |-> 0, existed |-> FALSE, unlinked |-> FALSE,
     storedBefore |-> <<>>, readLastError |-> 0, help |-> "none", notifyIssued |-> FALSE,
     notifyThrew |-> FALSE, threw |-> FALSE]

\* The values of each part's variables while another part's specification runs.
IdleLog ==
    /\ disk = <<>>
    /\ logPc = "idle"
    /\ logFilename = ""
    /\ opened = <<>>

IdleExit ==
    /\ runPc = "idle"
    /\ args = <<>>
    /\ envDEBUG = Undefined
    /\ isTTY = FALSE
    /\ cmd = FALSE
    /\ exitCodeProp = Undefined
    /\ logFileExists = FALSE
    /\ lastError = Undefined
    /\ clock = 0
    /\ exitArg = 0
    /\ handled = NotHandled
    /\ prevExit = "none"
    /\ notifiedCodes = {}

IdleNext ==
    /\ nextOp = "none"
    /\ nextArg = <<>>
    /\ nextRes = <<>>

IdleTool ==
    /\ users = <<>>
    /\ usersAtStart = <<>>
    /\ apiLog = <<>>
    /\ invocations = <<>>

(***************************************************************************)
(* cli.ts: findAvailableLogFile                                            *)
(***************************************************************************)

\* The loop bound of `for (let i = 1; i < 10; i++)`.
NumCandidates == 10

\* process.cwd()
Cwd == "/work"

\* path.join(dir, name) for a plain file name
join(dir, name) == dir \o "/" \o name

\* const candidates = ["firebase-debug.log"]; for (i = 1; i < 10; i++) push(...)
RECURSIVE pushCandidates(_, _)
pushCandidates(candidates, i) ==
    IF i < NumCandidates
    THEN pushCandidates(Append(candidates, "firebase-debug." \o ToString(i) \o ".log"), i + 1)
    ELSE candidates

candidates == pushCandidates(<<"firebase-debug.log">>, 1)

\* What fs.openSync(path, "r+") can do: succeed, or fail with an error code.
OpenOutcomes == {"OK", "ENOENT", "EACCES", "EPERM"}

\* fs.openSync(path, "r+") on the given disk; a path the disk does not hold
\* does not exist.
openSync(d, path) == IF path \in DOMAIN d THEN d[path] ELSE "ENOENT"

\* catch (e) { if (e.code === "ENOENT") return logFilename; /* else skip */ }
catchReturns_AnyError(code) == TRUE

catchReturns(code) == code = "ENOENT"

\* for (const c of candidates) { try { open; close; return } catch { ... } }
\* throw new Error(...)
RECURSIVE tryCandidates(_, _, _)
tryCandidates(d, k, tried) ==
    IF k > Len(candidates)
    THEN [threw |-> TRUE, logFilename |-> "", opened |-> tried]
    ELSE LET path    == join(Cwd, candidates[k])
             outcome == openSync(d, path)
             tried2  == Append(tried, path)
         IN  IF outcome = "OK"
             THEN [threw |-> FALSE, logFilename |-> path, opened |-> tried2]
             ELSE IF catchReturns(outcome)
                  THEN [threw |-> FALSE, logFilename |-> path, opened |-> tried2]
                  ELSE tryCandidates(d, k + 1, tried2)

findAvailableLogFile(d) == tryCandidates(d, 1, <<>>)

\* The ten log files a working directory may hold.
LogFileNames ==
    << "firebase-debug.log",   "firebase-debug.1.log", "firebase-debug.2.log",
       "firebase-debug.3.log", "firebase-debug.4.log", "firebase-debug.5.log",
       "firebase-debug.6.log", "firebase-debug.7.log", "firebase-debug.8.log",
       "firebase-debug.9.log" >>

LogPaths == [k \in 1..Len(LogFileNames) |-> "/work/" \o LogFileNames[k]]

LogPathSet == {LogPaths[k] : k \in 1..Len(LogPaths)}

InitLog ==
    /\ disk \in [LogPathSet -> OpenOutcomes]
    /\ logPc = "start"
    /\ logFilename = ""
    /\ opened = <<>>
    /\ IdleExit
    /\ IdleNext
    /\ IdleTool

\* const logFilename = findAvailableLogFile();
FindAvailableLogFile ==
    /\ logPc = "start"
    /\ LET r == findAvailableLogFile(disk)
       IN  /\ logPc' = IF r.threw THEN "fatal" ELSE "selected"
           /\ logFilename' = r.logFilename
           /\ opened' = r.opened
    /\ UNCHANGED disk
    /\ UNCHANGED <<exitVars, nextVars, toolVars>>

NextLog == FindAvailableLogFile

SpecLog == InitLog /\ [][NextLog]_vars

\* A candidate the selector accepts: absent, or openable for read/write.
Usable(path) == disk[path] \in {"ENOENT", "OK"}

\* C1: findAvailableLogFile tries the ten candidates firebase-debug.log,
\* firebase-debug.1.log, ..., firebase-debug.9.log in that order, returns the
\* first that does not exist or can be opened for read/write, skips a candidate
\* failing with any other error, and throws iff all ten are inaccessible.
C1_FirstUsableCandidate ==
    logPc # "start" =>
        /\ Len(LogPaths) = 10
        /\ Len(opened) <= 10
        /\ \A k \in 1..Len(opened) : opened[k] = LogPaths[k]
        /\ (logPc = "fatal") <=> (\A k \in 1..10 : ~Usable(LogPaths[k]))
        /\ logPc = "fatal" => Len(opened) = 10
        /\ logPc = "selected" =>
              \E k \in 1..10 :
                  /\ logFilename = LogPaths[k]
                  /\ Usable(LogPaths[k])
                  /\ \A j \in 1..(k - 1) : ~Usable(LogPaths[j])
                  /\ Len(opened) = k

\* A later candidate is returned after earlier ones were skipped for two
\* kinds of error, with an inaccessible file still ahead of it.
C1_Witness ==
    /\ logPc = "selected"
    /\ logFilename = LogPaths[4]
    /\ disk[LogPaths[1]] = "EACCES"
    /\ disk[LogPaths[2]] = "EPERM"
    /\ disk[LogPaths[4]] = "OK"
    /\ disk[LogPaths[7]] = "EACCES"

(***************************************************************************)
(* cli.ts: successive CLI processes and the "exit" handler                 *)
(***************************************************************************)

\* The largest exit code a run ends with.
MaxCode == 2

\* How many clock steps the runs span.
MaxTicks == 3

\* `lastError > timestamp - 120000`
HelpWindow == 120000

\* The clock advances in steps of half the window, from a present-day time.
Tick == HelpWindow \div 2

StartTime == 10 * HelpWindow

Codes == 0..MaxCode

\* The command lines the runs are started with.
ArgLists ==
    { <<>>, <<"deploy">>, <<"deploy", "--debug">>, <<"--open-sesame", "x">> }

\* JavaScript truthiness of an optional string / optional number.
truthyString(v) == v # Undefined /\ v[1] # ""

truthyNumber(v) == v # Undefined /\ v[1] # 0

\* args.includes(x)
includes(a, x) == \E k \in 1..Len(a) : a[k] = x

\* handlePreviewToggles(args): true when the command line was a preview toggle.
handlePreviewToggles(a) ==
    Len(a) > 0 /\ a[1] \in {"--open-sesame", "--close-sesame"}

\* if (!process.env.DEBUG && args.includes("--debug")) process.env.DEBUG = "true";
debugAfterFlag(env, a) ==
    IF ~truthyString(env) /\ includes(a, "--debug") THEN Some("true") ELSE env

\* code = process.exitCode || code;
effectiveCode(prop, code) == IF truthyNumber(prop) THEN prop[1] ELSE code

\* if (!process.env.DEBUG && code < 2 && fsutils.fileExistsSync(logFilename))
shouldUnlink_IgnoreDebug(env, code, exists) == code < 2 /\ exists

shouldUnlink(env, code, exists) == ~truthyString(env) /\ code < 2 /\ exists

\* if (code > 0 && process.stdout.isTTY)
isFailureOnTTY(code, tty) == code > 0 /\ tty

\* const lastError = configstore.get("lastError") || 0;
getLastError(stored) == IF truthyNumber(stored) THEN stored[1] ELSE 0

\* if (lastError > timestamp - 120000)
isRecent_NoWindow(last, timestamp) == last > 0

isRecent(last, timestamp) == last > timestamp - HelpWindow

\* The help text chosen and printed: `if (code === 1 && cmd) ... else ...`,
\* then `if (cmd) console.log(help)`.
helpPrinted_AlwaysSupport(code, c) == IF c THEN "support" ELSE "none"

helpPrinted(code, c) ==
    LET help == IF code = 1 /\ c THEN "command_help" ELSE "support"
    IN  IF c THEN help ELSE "none"

\* try { ... updateNotifier.notify(...) } catch (err) { logger.debug(...) }
\* `propagated` is whether an error leaves the try statement.
notifyUpdates_OnlyOnCleanExit(code, fails) ==
    [issued |-> code = 0, threw |-> code = 0 /\ fails, propagated |-> FALSE]

notifyUpdates_Uncaught(code, fails) ==
    [issued |-> TRUE, threw |-> fails, propagated |-> fails]

notifyUpdates(code, fails) ==
    [issued |-> TRUE, threw |-> fails, propagated |-> FALSE]

\* The handler's three statements, each acting on the handler's record h and
\* skipped when an exception is already on its way out.
stmtUnlink(h) ==
    IF h.threw THEN h
    ELSE IF shouldUnlink(h.env, h.code, h.exists)
         THEN [h EXCEPT !.exists = FALSE, !.unlinked = TRUE]
         ELSE h

stmtLastError(h) ==
    IF h.threw THEN h
    ELSE IF isFailureOnTTY(h.code, h.tty)
         THEN LET last == getLastError(h.stored)
              IN  [h EXCEPT !.readLastError = last,
                            !.help = IF isRecent(last, h.now)
                                     THEN helpPrinted(h.code, h.cmd)
                                     ELSE "none",
                            !.stored = Some(h.now)]
         ELSE [h EXCEPT !.stored = Undefined]

stmtNotify(h) ==
    IF h.threw THEN h
    ELSE LET n == notifyUpdates(h.code, h.notifyFails)
         IN  [h EXCEPT !.notifyIssued = n.issued,
                       !.notifyThrew = n.threw,
                       !.threw = n.propagated]

\* process.on("exit", (code) => { ... })
exitHandler(env, prop, code, exists, tty, c, stored, now, fails) ==
    stmtNotify(stmtLastError(stmtUnlink(
        [env |-> env, code |-> effectiveCode(prop, code), exists |-> exists,
         existed |-> exists, tty |-> tty, cmd |-> c, stored |-> stored,
         now |-> now, notifyFails |-> fails, unlinked |-> FALSE,
         readLastError |-> 0, help |-> "none", notifyIssued |-> FALSE,
         notifyThrew |-> FALSE, threw |-> FALSE])))

InitExit ==
    /\ IdleLog
    /\ IdleNext
    /\ IdleTool
    /\ runPc = "boot"
    /\ args \in ArgLists
    /\ envDEBUG \in {Undefined, Some(""), Some("true")}
    /\ isTTY \in BOOLEAN
    /\ cmd = FALSE
    /\ exitCodeProp = Undefined
    /\ logFileExists = FALSE
    /\ lastError = Undefined
    /\ clock = StartTime
    /\ exitArg = 0
    /\ handled = NotHandled
    /\ prevExit = "none"
    /\ notifiedCodes = {}

\* cli(pkg) up to the registration of the handlers: the log file is selected
\* and handed to the logger's file transport (which creates it, sooner or
\* later), and --debug turns DEBUG on.
Boot ==
    /\ runPc = "boot"
    /\ runPc' = "booted"
    /\ envDEBUG' = debugAfterFlag(envDEBUG, args)
    /\ logFileExists' \in BOOLEAN
    /\ UNCHANGED <<args, isTTY, cmd, exitCodeProp, lastError, clock, exitArg,
                   handled, prevExit, notifiedCodes>>
    /\ UNCHANGED <<logVars, nextVars, toolVars>>

\* if (!handlePreviewToggles(args)) { if (!args.length) help() else cmd = parse() }
Dispatch ==
    /\ runPc = "booted"
    /\ runPc' = "running"
    /\ cmd' = (~handlePreviewToggles(args) /\ Len(args) # 0)
    /\ UNCHANGED <<args, envDEBUG, isTTY, exitCodeProp, logFileExists, lastError,
                   clock, exitArg, handled, prevExit, notifiedCodes>>
    /\ UNCHANGED <<logVars, nextVars, toolVars>>

\* A command sets process.exitCode.
SetExitCode ==
    /\ runPc = "running"
    /\ exitCodeProp = Undefined
    /\ \E c \in Codes : exitCodeProp' = Some(c)
    /\ UNCHANGED <<runPc, args, envDEBUG, isTTY, cmd, logFileExists, lastError,
                   clock, exitArg, handled, prevExit, notifiedCodes>>
    /\ UNCHANGED <<logVars, nextVars, toolVars>>

\* The process exits (from inside the dispatch, or after it) and the "exit"
\* handler runs with the code of the event.
ProcessExit ==
    /\ runPc \in {"booted", "running"}
    /\ \E code \in Codes, fails \in BOOLEAN :
          LET h == exitHandler(envDEBUG, exitCodeProp, code, logFileExists, isTTY,
                               cmd, lastError, clock, fails)
          IN  /\ exitArg' = code
              /\ logFileExists' = h.exists
              /\ lastError' = h.stored
              /\ handled' = [ran |-> TRUE, code |-> h.code, existed |-> h.existed,
                             unlinked |-> h.unlinked, storedBefore |-> lastError,
                             readLastError |-> h.readLastError, help |-> h.help,
                             notifyIssued |-> h.notifyIssued,
                             notifyThrew |-> h.notifyThrew, threw |-> h.threw]
              /\ notifiedCodes' = IF h.notifyIssued
                                  THEN notifiedCodes \cup {h.code}
                                  ELSE notifiedCodes
    /\ runPc' = "exited"
    /\ UNCHANGED <<args, envDEBUG, isTTY, cmd, exitCodeProp, clock, prevExit>>
    /\ UNCHANGED <<logVars, nextVars, toolVars>>

\* The next CLI process starts, some time later, in a fresh environment; the
\* configstore is what the last one left.
NextRun ==
    /\ runPc = "exited"
    /\ runPc' = "boot"
    /\ \E k \in 0..MaxTicks :
          /\ clock + k * Tick <= StartTime + MaxTicks * Tick
          /\ clock' = clock + k * Tick
    /\ args' \in ArgLists
    /\ envDEBUG' \in {Undefined, Some(""), Some("true")}
    /\ isTTY' \in BOOLEAN
    /\ cmd' = FALSE
    /\ exitCodeProp' = Undefined
    /\ logFileExists' = FALSE
    /\ exitArg' = 0
    /\ handled' = NotHandled
    /\ prevExit' = IF isFailureOnTTY(handled.code, isTTY) THEN "failure_tty" ELSE "other"
    /\ UNCHANGED <<lastError, notifiedCodes>>
    /\ UNCHANGED <<logVars, nextVars, toolVars>>

NextExit == Boot \/ Dispatch \/ SetExitCode \/ ProcessExit \/ NextRun

SpecExit == InitExit /\ [][NextExit]_vars

\* The exit code the handler acts on, read off the process: process.exitCode
\* when it is set and not zero, the code of the "exit" event otherwise.
ExitCodeOfRun ==
    IF exitCodeProp # <<>> /\ exitCodeProp[1] # 0 THEN exitCodeProp[1] ELSE exitArg

\* Debug mode is off: DEBUG unset or empty.
DebugOff == envDEBUG \in {<<>>, <<"">>}

FailedOnTTY == ExitCodeOfRun > 0 /\ isTTY

\* C2: the exit handler deletes the selected log file iff debug mode is not
\* active (DEBUG unset or empty), the effective exit code (process.exitCode
\* when non-zero, else the code passed to the handler) is below 2 and the
\* file exists; otherwise (debug active, --debug passed at startup, or a code
\* of 2 or more) the file is left in place.
C2_LogDeletedIffCleanAndNoDebug ==
    handled.ran =>
        /\ handled.code = ExitCodeOfRun
        /\ handled.unlinked <=> (DebugOff /\ ExitCodeOfRun < 2 /\ handled.existed)
        /\ handled.unlinked => ~logFileExists
        /\ ~handled.unlinked => (logFileExists = handled.existed)
        /\ includes(args, "--debug") => ~handled.unlinked

\* The log file is deleted on an exit whose process.exitCode is 0 and whose
\* event code is 1.
C2_Witness ==
    /\ handled.ran
    /\ handled.unlinked
    /\ exitCodeProp = <<0>>
    /\ exitArg = 1
    /\ ~logFileExists

\* C7 (as claimed): the exit code drives whether the update notification is
\* issued, so the exits that issue it never cover every exit code.
C7_NotificationDependsOnExitCode == notifiedCodes # Codes

\* C7 (amended): the exit handler issues the update notification on every
\* exit, whatever the exit code; the exit code does not drive it.
C7_NotificationOnEveryExit ==
    /\ handled.ran => handled.notifyIssued /\ handled.code \in notifiedCodes
    /\ runPc = "boot" /\ prevExit # "none" => notifiedCodes # {}

\* The notification is issued on an exit with the largest code, after an
\* exit with code 0 issued it too.
C7_Witness ==
    /\ handled.ran
    /\ handled.code = MaxCode
    /\ handled.notifyIssued
    /\ 0 \in notifiedCodes

\* C8: the exit handler prints a "Having trouble?" hint only on an exit with
\* effective code > 0 on a TTY, with a command parsed and a stored lastError
\* less than 120000 ms old; every exit with code > 0 on a TTY stores the
\* current time as lastError and every other exit deletes lastError, so a
\* failure that follows a successful or non-TTY exit prints no hint.
C8_HintOnlyAfterRecentFailure ==
    handled.ran =>
        /\ handled.help # "none" =>
              /\ FailedOnTTY
              /\ cmd
              /\ handled.storedBefore # <<>>
              /\ clock - handled.storedBefore[1] < 120000
        /\ FailedOnTTY => lastError = <<clock>>
        /\ ~FailedOnTTY => lastError = <<>>
        /\ prevExit = "other" => handled.help = "none"

\* A hint is printed on a failure that follows a failure on a TTY.
C8_Witness ==
    /\ handled.ran
    /\ handled.help = "command_help"
    /\ prevExit = "failure_tty"
    /\ clock - handled.storedBefore[1] = Tick

\* C9: an error thrown by the update notification is caught and does not leave
\* the handler, and by then the log file deletion and the lastError update
\* have taken effect as they do when the notification succeeds.
C9_NotifyErrorSwallowed ==
    handled.ran /\ handled.notifyThrew =>
        /\ ~handled.threw
        /\ handled.unlinked <=> (DebugOff /\ ExitCodeOfRun < 2 /\ handled.existed)
        /\ logFileExists = (handled.existed /\ ~handled.unlinked)
        /\ lastError = IF FailedOnTTY THEN <<clock>> ELSE <<>>

\* The notification throws on an exit that deleted the log file and on which
\* lastError was stored.
C9_Witness ==
    /\ handled.ran
    /\ handled.notifyThrew
    /\ handled.unlinked
    /\ lastError = <<clock>>

\* C10: when the handler prints the hint "Having trouble? Try again or contact
\* support with contents of firebase-debug.log" it has not deleted the log
\* file: that hint needs an effective code > 0 other than 1, the deletion a
\* code below 2.
C10_SupportHintKeepsLog ==
    handled.ran =>
        /\ handled.help = "support" =>
              /\ ExitCodeOfRun > 0
              /\ ExitCodeOfRun # 1
              /\ ~handled.unlinked
              /\ logFileExists = handled.existed
        /\ handled.unlinked => ExitCodeOfRun < 2

\* The support hint is printed with debug mode off and the log file on disk,
\* and the file is still there.
C10_Witness ==
    /\ handled.ran
    /\ handled.help = "support"
    /\ DebugOff
    /\ handled.existed
    /\ logFileExists

(***************************************************************************)
(* frameworks/next/utils.ts                                                *)
(***************************************************************************)

\* The longest path (in characters) and the longest rewrite list handed in.
MaxPathLen == 4

MaxListLen == 2

\* Sequences over S of length at most n.
SeqsUpTo(S, n) == UNION {[1..k -> S] : k \in 0..n}

\* A path is a sequence of characters.
Backslash == "\\"

\* The character class of /\\([(){}:+?*])/g
EscapableChars_NoStar == {"(", ")", "{", "}", ":", "+", "?"}

EscapableChars == {"(", ")", "{", "}", ":", "+", "?", "*"}

\* The characters a path is made of.
PathChars == {"(", ")", "{", "}", ":", "+", "?", "*", Backslash, "a", "/"}

Paths == SeqsUpTo(PathChars, MaxPathLen)

\* /(?<!\\)\(/.test(path), tried at each position from the left
RECURSIVE regexTestFrom(_, _)
regexTestFrom(path, i) ==
    IF i > Len(path) THEN FALSE
    ELSE IF path[i] = "(" /\ ~(i > 1 /\ path[i - 1] = Backslash) THEN TRUE
    ELSE regexTestFrom(path, i + 1)

pathHasRegex_AnyParen(path) == \E i \in 1..Len(path) : path[i] = "("

pathHasRegex(path) == regexTestFrom(path, 1)

\* path.replace(/\\([(){}:+?*])/g, (a, b) => b): the matches are found from the
\* left, each replaced by its group, the scan going on after the match.
RECURSIVE replaceFrom(_, _, _)
replaceFrom(path, i, out) ==
    IF i > Len(path) THEN out
    ELSE IF /\ path[i] = Backslash
            /\ i + 1 <= Len(path)
            /\ path[i + 1] \in EscapableChars
         THEN replaceFrom(path, i + 2, Append(out, path[i + 1]))
         ELSE replaceFrom(path, i + 1, Append(out, path[i]))

cleanEscapedChars(path) == replaceFrom(path, 1, <<>>)

\* isUrl(destination) of frameworks/utils: an http(s) URL. A destination is a
\* sequence of URL parts.
isUrl(destination) ==
    /\ Len(destination) >= 2
    /\ destination[1] \in {"http:", "https:"}
    /\ destination[2] = "//"

\* "has" in rewrite
hasKey(obj, key) == key \in DOMAIN obj

isRewriteSupportedByHosting(rewrite) ==
    ~(hasKey(rewrite, "has") \/ pathHasRegex(rewrite.source) \/ isUrl(rewrite.destination))

\* The rewrites handed in: a source over a few characters, a destination, and
\* possibly a `has` list.
SourceChars == {Backslash, "(", "a"}

Destinations ==
    { <<"/", "a">>, <<"http:", "//", "a">>, <<"https:", "//", "a">>,
      <<"//", "a">>, <<"/", "http:", "//">> }

HasLists == { <<>>, <<"header">> }

Rewrites ==
    [source : SeqsUpTo(SourceChars, MaxPathLen), destination : Destinations]
    \cup
    [source : SeqsUpTo(SourceChars, MaxPathLen), destination : Destinations,
     has : HasLists]

\* The rewrites manifest: an array of rewrites, an object with some of the keys
\* beforeFiles, afterFiles and fallback, or undefined.
RewriteIds == {"r1", "r2"}

RewriteLists == SeqsUpTo(RewriteIds, MaxListLen)

ManifestKeys == {"beforeFiles", "afterFiles", "fallback"}

Manifests ==
    {[kind |-> "undefined"]}
    \cup {[kind |-> "array", items |-> l] : l \in RewriteLists}
    \cup UNION {{[kind |-> "object", props |-> f] : f \in [K -> RewriteLists]} :
                K \in SUBSET ManifestKeys}

\* if (Array.isArray(m)) return m; if (m?.beforeFiles) return m.beforeFiles; return [];
getNextjsRewritesToUse_AllPhases(m) ==
    IF m.kind = "array" THEN m.items
    ELSE IF m.kind = "object" /\ hasKey(m.props, "beforeFiles")
         THEN m.props.beforeFiles
              \o (IF hasKey(m.props, "afterFiles") THEN m.props.afterFiles ELSE <<>>)
         ELSE <<>>

getNextjsRewritesToUse(m) ==
    IF m.kind = "array" THEN m.items
    ELSE IF m.kind = "object" /\ hasKey(m.props, "beforeFiles")
         THEN m.props.beforeFiles
         ELSE <<>>

InitNext ==
    /\ IdleLog
    /\ IdleExit
    /\ IdleTool
    /\ nextOp = "none"
    /\ nextArg = <<>>
    /\ nextRes = <<>>

CallCleanEscapedChars ==
    /\ nextOp = "none"
    /\ \E path \in Paths :
          /\ nextArg' = path
          /\ nextRes' = cleanEscapedChars(path)
    /\ nextOp' = "cleanEscapedChars"
    /\ UNCHANGED <<logVars, exitVars, toolVars>>

CallIsRewriteSupportedByHosting ==
    /\ nextOp = "none"
    /\ \E rewrite \in Rewrites :
          /\ nextArg' = rewrite
          /\ nextRes' = isRewriteSupportedByHosting(rewrite)
    /\ nextOp' = "isRewriteSupportedByHosting"
    /\ UNCHANGED <<logVars, exitVars, toolVars>>

CallGetNextjsRewritesToUse ==
    /\ nextOp = "none"
    /\ \E m \in Manifests :
          /\ nextArg' = m
          /\ nextRes' = getNextjsRewritesToUse(m)
    /\ nextOp' = "getNextjsRewritesToUse"
    /\ UNCHANGED <<logVars, exitVars, toolVars>>

\* The caller takes the result; the next call can be made.
Return ==
    /\ nextOp # "none"
    /\ nextOp' = "none"
    /\ nextArg' = <<>>
    /\ nextRes' = <<>>
    /\ UNCHANGED <<logVars, exitVars, toolVars>>

NextNext ==
    \/ CallCleanEscapedChars
    \/ CallIsRewriteSupportedByHosting
    \/ CallGetNextjsRewritesToUse
    \/ Return

SpecNext == InitNext /\ [][NextNext]_vars

\* C3: isRewriteSupportedByHosting is false for a rewrite with a `has`
\* property, or a source with an opening parenthesis not immediately preceded
\* by a backslash, or an absolute-URL destination, and true for every other.
C3_RewriteSupported ==
    nextOp = "isRewriteSupportedByHosting" =>
        LET hasHas   == "has" \in DOMAIN nextArg
            src      == nextArg.source
            regex    == \E i \in 1..Len(src) :
                            src[i] = "(" /\ (i = 1 \/ src[i - 1] # "\\")
            absolute == nextArg.destination \in
                            {<<"http:", "//", "a">>, <<"https:", "//", "a">>}
        IN  nextRes = ~(hasHas \/ regex \/ absolute)

\* A rewrite whose source holds only an escaped parenthesis, with no `has` and
\* a local destination, is supported.
C3_Witness ==
    /\ nextOp = "isRewriteSupportedByHosting"
    /\ nextArg = [source |-> <<"a", "\\", "(">>, destination |-> <<"/", "a">>]
    /\ nextRes = TRUE

\* The positions of the backslashes that escape one of ( ) { } : + ? *
EscapingAt(path) ==
    {i \in 1..Len(path) :
        /\ path[i] = "\\"
        /\ i < Len(path)
        /\ path[i + 1] \in {"(", ")", "{", "}", ":", "+", "?", "*"}}

\* C4: cleanEscapedChars removes exactly the one backslash in front of each
\* ( ) { } : + ? * that a backslash immediately precedes, and keeps every other
\* character, in order; a path with no such backslash is returned unchanged.
C4_CleanEscapedChars ==
    nextOp = "cleanEscapedChars" =>
        LET gone == EscapingAt(nextArg)
            kept == {i \in 1..Len(nextArg) : i \notin gone}
        IN  /\ Len(nextRes) = Len(nextArg) - Cardinality(gone)
            /\ \A i \in kept :
                  nextRes[i - Cardinality({j \in gone : j < i})] = nextArg[i]
            /\ gone = {} => nextRes = nextArg

\* Of two backslashes in front of a parenthesis only the second is removed, and
\* the star loses its backslash too.
C4_Witness ==
    /\ nextOp = "cleanEscapedChars"
    /\ nextArg = <<"\\", "\\", "(", "*">>
    /\ nextRes = <<"\\", "(", "*">>

\* C5: getNextjsRewritesToUse returns an array manifest unchanged, exactly the
\* beforeFiles list of an object with a beforeFiles key (whatever afterFiles
\* and fallback hold), and an empty list for anything else, undefined included.
C5_RewritesToUse ==
    nextOp = "getNextjsRewritesToUse" =>
        /\ nextArg.kind = "array" => nextRes = nextArg.items
        /\ nextArg.kind = "object" /\ "beforeFiles" \in DOMAIN nextArg.props =>
              nextRes = nextArg.props["beforeFiles"]
        /\ nextArg.kind = "object" /\ "beforeFiles" \notin DOMAIN nextArg.props =>
              nextRes = <<>>
        /\ nextArg.kind = "undefined" => nextRes = <<>>

\* An object with all three keys yields its beforeFiles list alone.
C5_Witness ==
    /\ nextOp = "getNextjsRewritesToUse"
    /\ nextArg = [kind |-> "object",
                  props |-> [beforeFiles |-> <<"r1">>, afterFiles |-> <<"r2">>,
                             fallback |-> <<"r2", "r1">>]]
    /\ nextRes = <<"r1">>

(***************************************************************************)
(* mcp/tools/auth/disable_user.ts                                          *)
(***************************************************************************)

\* How many tool calls are made.
MaxCalls == 2

Uids == {"alice", "bob"}

\* The ambient project identifier: undefined, empty, or a project's.
ProjectIds == {Undefined, Some(""), Some("p1"), Some("p2")}

\* mcpError(message): a structured error result
mcpError(message) ==
    [content |-> <<[type |-> "text", text |-> "Error: " \o message]>>,
     isError |-> TRUE]

\* toContent(data): the data as the result's content
toContent(data) ==
    [content |-> <<[type |-> "text", text |-> data]>>, isError |-> FALSE]

\* getProject(projectId): the project resource the management API returns
getProject(projectId) == "projects/" \o projectId

\* async ({uid, disable}, {projectId}) => {
\*   if (!projectId) return mcpError(`No current project detected.`);
\*   return toContent(await getProject(projectId)); }
\* The result, the remote calls made and the users afterwards.
disableUserHandler_Disables(uid, disable, projectId, us) ==
    IF ~truthyString(projectId)
    THEN [result |-> mcpError("No current project detected."), calls |-> <<>>,
          users |-> us]
    ELSE [result |-> toContent(getProject(projectId[1])),
          calls |-> <<[api |-> "getProject", projectId |-> projectId[1]]>>,
          users |-> [us EXCEPT ![uid] = disable]]

disableUserHandler(uid, disable, projectId, us) ==
    IF ~truthyString(projectId)
    THEN [result |-> mcpError("No current project detected."), calls |-> <<>>,
          users |-> us]
    ELSE [result |-> toContent(getProject(projectId[1])),
          calls |-> <<[api |-> "getProject", projectId |-> projectId[1]]>>,
          users |-> us]

InitTool ==
    /\ IdleLog
    /\ IdleExit
    /\ IdleNext
    /\ users \in [Uids -> BOOLEAN]
    /\ usersAtStart = users
    /\ apiLog = <<>>
    /\ invocations = <<>>

\* The agent calls the disable_user tool.
DisableUser ==
    /\ Len(invocations) < MaxCalls
    /\ \E uid \in Uids, disable \in BOOLEAN, projectId \in ProjectIds :
          LET r == disableUserHandler(uid, disable, projectId, users)
          IN  /\ users' = r.users
              /\ apiLog' = apiLog \o r.calls
              /\ invocations' = Append(invocations,
                     [uid |-> uid, disable |-> disable, projectId |-> projectId,
                      result |-> r.result])
    /\ UNCHANGED usersAtStart
    /\ UNCHANGED <<logVars, exitVars, nextVars>>

NextTool == DisableUser

SpecTool == InitTool /\ [][NextTool]_vars

\* The calls made with a project identifier.
WithProject == {i \in 1..Len(invocations) : invocations[i].projectId \notin {<<>>, <<"">>}}

====
